---- MODULE Spec2Model ----
(***************************************************************************)
(* Access & Billing Guard of BlockAi-Backend (src/src/services/            *)
(* x402Service.ts): X402Service.accessGuard, guardWithUser, checkAccess,   *)
(* generatePaymentRequest and mockProcessPayment over the prisma tables    *)
(* billingState, usageLog, payment and aPIKey.                             *)
(*                                                                         *)
(* Every request runs in its own slot.  A slot advances one atomic step    *)
(* per storage operation (each `await prisma...`); the synchronous code    *)
(* between two awaits only touches the slot's locals.  Slots interleave    *)
(* freely, as concurrent HTTP requests do on the node event loop.          *)
(***************************************************************************)
EXTENDS Integers, Sequences, FiniteSets, TLC

(* ----------------------------- bounds --------------------------------- *)
\* number of requests (guard calls and payments) started in one behaviour
MaxOps == 3
\* number of request slots that can be in flight at the same time
MaxInFlight == 2

(* ------------------------ program constants --------------------------- *)
COST_PER_REQUEST_FREE == 1
DAILY_LIMIT_FREE == 10
COST_PER_REQUEST_PAID == 0
DAILY_LIMIT_PAID == 1000
\* credits of a BillingState created by the upsert of mockProcessPayment
PAID_CREATE_CREDITS == 120
\* bonus credits added by the upsert of mockProcessPayment
PAID_BONUS_CREDITS == 100
\* default credits of a BillingState row created without explicit credits
DEFAULT_CREDITS == 20

(* --------------------------- value domains ---------------------------- *)
Users == {"u1", "u2"}
Reqs == 1..MaxInFlight

\* optional values (null / undefined): the empty sequence or a singleton
None == <<>>
Some(x) == <<x>>
IsSome(o) == Len(o) = 1
Get(o) == o[1]

\* "" stands for an omitted (undefined) or empty string argument: both falsy
Truthy(s) == s # ""

\* representative calendar dates at which requests arrive, in time order
Calendar ==
  << [y |-> 2024, m |-> 1, d |-> 31],
     [y |-> 2024, m |-> 2, d |-> 1],
     [y |-> 2024, m |-> 3, d |-> 1] >>
NoDate == [y |-> 0, m |-> 0, d |-> 0]

LeapYear(y) == (y % 4 = 0 /\ y % 100 # 0) \/ y % 400 = 0
DaysInMonth(y, m) ==
  IF m = 2 THEN (IF LeapYear(y) THEN 29 ELSE 28)
  ELSE IF m \in {4, 6, 9, 11} THEN 30 ELSE 31
\* b is the calendar day after a
IsPrevDay(a, b) ==
  \/ a.y = b.y /\ a.m = b.m /\ b.d = a.d + 1
  \/ a.y = b.y /\ b.m = a.m + 1 /\ b.d = 1 /\ a.d = DaysInMonth(a.y, a.m)
  \/ b.y = a.y + 1 /\ a.m = 12 /\ a.d = 31 /\ b.m = 1 /\ b.d = 1

\* Date.prototype.getDate(): the day of the month
getDate(ts) == ts.d

VARIABLES
  billingState,  \* prisma.billingState: userId -> row, for the users having one
  usageLog,      \* prisma.usageLog: sequence of rows, in insertion order
  payment,       \* prisma.payment: sequence of rows, in insertion order
  aPIKey,        \* prisma.aPIKey: key string -> row
  user,          \* prisma.user: walletAddress -> row, for the users having one
  isAccessGranted, \* prisma.user, column isAccessGranted: user id -> BOOLEAN
  accessCode,    \* prisma.accessCode: code -> row
  clock,         \* index into Calendar of the current date
  pc,            \* per slot: position of the request in its handler
  frame,         \* per slot: arguments, locals and result of the request
  started        \* number of requests started so far

vars ==
  << billingState, usageLog, payment, aPIKey, user, isAccessGranted, accessCode,
     clock, pc, frame, started >>

\* new Date()
Now == Calendar[clock]

\* prisma.user.findUnique({ where: { walletAddress } }): walletAddress -> user id
UserByWallet == [w \in DOMAIN user |-> user[w].id]

(* ----------------------------- X402Service ---------------------------- *)

\* mutant: the reference is the user id as given, without the fallback
generatePaymentRequest_NoFallback(userId) ==
  [ amount |-> 10,
    currency |-> "USDC",
    address |-> "0x742d35Cc6634C0532925a3b844Bc454e4438f44e",
    network |-> "Base Sepolia",
    referenceId |-> userId ]

\* generatePaymentRequest(userId?)
generatePaymentRequest(userId) ==
  [ amount |-> 10,
    currency |-> "USDC",
    address |-> "0x742d35Cc6634C0532925a3b844Bc454e4438f44e",
    network |-> "Base Sepolia",
    referenceId |-> IF Truthy(userId) THEN userId ELSE "anonymous" ]

\* an AccessResult; absent fields are None (reason: "undefined")
Allowed ==
  [allowed |-> TRUE, reason |-> "undefined", paymentRequired |-> None, paymentInfo |-> None]
\* mutant: the payment request of a denial is generated without the user id
Denied_Unscoped(reason, userId) ==
  [ allowed |-> FALSE, reason |-> reason, paymentRequired |-> Some(TRUE),
    paymentInfo |-> Some(generatePaymentRequest("")) ]

Denied(reason, userId) ==
  [ allowed |-> FALSE, reason |-> reason, paymentRequired |-> Some(TRUE),
    paymentInfo |-> Some(generatePaymentRequest(userId)) ]
DeniedInvalidKey ==
  [ allowed |-> FALSE, reason |-> "Invalid or Inactive API Key",
    paymentRequired |-> None, paymentInfo |-> None ]

\* the row prisma.billingState.create({ data: { userId } }) inserts
DefaultBillingState(at) ==
  [tier |-> "FREE", credits |-> DEFAULT_CREDITS, dailyUsageCount |-> 0, lastResetAt |-> at]

\* locals of an idle slot.  userId, billing, now: the variables of that name
\* in accessGuard / checkAccess; loaded: the value `billing` was first given
\* (by findUnique or create), kept when the reset reassigns `billing`;
\* result: the value returned
IdleFrame ==
  [ apiKeyStr |-> "", walletAddress |-> "", txHash |-> "", username |-> "",
    code |-> "", handler |-> "", response |-> None,
    userId |-> "", loaded |-> None, billing |-> None, now |-> NoDate, result |-> None ]

\* the frame of checkAccess(userId): its parameter, nothing else set yet
EnterCheckAccess(userId) == [IdleFrame EXCEPT !.userId = userId]

\* the frame f of a function called in slot r: the handler that made the
\* call stays the one waiting for it
Callee(r, f) == [f EXCEPT !.handler = frame[r].handler]

\* slots are interchangeable: a request takes the lowest free slot
FreeSlot(r) == pc[r] = "idle" /\ \A q \in 1..(r - 1) : pc[q] # "idle"

\* billingState with the row of u set to row
PutRow(u, row) ==
  [x \in (DOMAIN billingState) \cup {u} |-> IF x = u THEN row ELSE billingState[x]]

(* ------------------------------- Init --------------------------------- *)
InitCredits == {0, 1, 5}
InitRows ==
  { [tier |-> "FREE", credits |-> c, dailyUsageCount |-> n, lastResetAt |-> Calendar[1]] :
      c \in InitCredits, n \in {DAILY_LIMIT_FREE - 1, DAILY_LIMIT_FREE} }
  \cup
  { [tier |-> "PAID", credits |-> 0, dailyUsageCount |-> n, lastResetAt |-> Calendar[1]] :
      n \in {DAILY_LIMIT_PAID - 1, DAILY_LIMIT_PAID} }

\* u2 starts with a row of its own; u1 with none or with one of InitRows
BystanderRow ==
  [tier |-> "FREE", credits |-> 3, dailyUsageCount |-> 2, lastResetAt |-> Calendar[1]]

InitKeys ==
  [ k \in {"k1", "k2"} |->
      IF k = "k1"
        THEN [userId |-> "u1", isActive |-> TRUE, usageCount |-> 0, lastUsedAt |-> None]
        ELSE [userId |-> "u1", isActive |-> FALSE, usageCount |-> 0, lastUsedAt |-> None] ]

\* access codes: c1 active with one use left, c2 inactive, c3 used up
InitCodes ==
  [ c \in {"c1", "c2", "c3"} |->
      IF c = "c1" THEN [isActive |-> TRUE, usedCount |-> 1, maxUses |-> 2]
      ELSE IF c = "c2" THEN [isActive |-> FALSE, usedCount |-> 0, maxUses |-> 2]
      ELSE [isActive |-> TRUE, usedCount |-> 1, maxUses |-> 1] ]

Init ==
  /\ billingState \in
       {[u \in {"u2"} |-> BystanderRow]}
         \cup {[u \in Users |-> IF u = "u1" THEN row ELSE BystanderRow] : row \in InitRows}
  /\ usageLog = <<>>
  /\ payment = <<>>
  /\ aPIKey = InitKeys
  /\ user = [w \in {"0xw1"} |-> [id |-> "u1"]]
  /\ isAccessGranted = [u \in Users |-> FALSE]
  /\ accessCode = InitCodes
  /\ clock = 1
  /\ pc = [r \in Reqs |-> "idle"]
  /\ frame = [r \in Reqs |-> IdleFrame]
  /\ started = 0

(* --------------------------- guardWithUser ---------------------------- *)
guardWithUser(r, userId) ==
  /\ FreeSlot(r)
  /\ started < MaxOps
  /\ started' = started + 1
  /\ frame' = [frame EXCEPT ![r] = EnterCheckAccess(userId)]
  /\ pc' = [pc EXCEPT ![r] = "load"]
  /\ UNCHANGED <<accessCode, isAccessGranted, user, billingState, usageLog, payment, aPIKey, clock>>


(* ----------------------------- checkAccess ---------------------------- *)
\* the slot's local variable `billing` and the user the request is for
Local(r) == Get(frame[r].billing)
UserOf(r) == frame[r].userId

\* 3. Load Billing State: prisma.billingState.findUnique({ where: { userId } })
checkAccessLoad(r) ==
  /\ pc[r] = "load"
  /\ LET found == IF UserOf(r) \in DOMAIN billingState
                    THEN Some(billingState[UserOf(r)]) ELSE None
     IN /\ frame' = [frame EXCEPT ![r].billing = found, ![r].loaded = found]
        /\ pc' = [pc EXCEPT ![r] = IF IsSome(found) THEN "dayCheck" ELSE "create"]
  /\ UNCHANGED <<accessCode, isAccessGranted, user, billingState, usageLog, payment, aPIKey, clock, started>>

\* mutant: the default row is taken as the local billing and never inserted
checkAccessCreate_LocalOnly(r) ==
  /\ pc[r] = "create"
  /\ frame' = [frame EXCEPT ![r].billing = Some(DefaultBillingState(Now)),
                            ![r].loaded = Some(DefaultBillingState(Now))]
  /\ pc' = [pc EXCEPT ![r] = "dayCheck"]
  /\ UNCHANGED <<accessCode, isAccessGranted, user, billingState, usageLog, payment, aPIKey, clock, started>>

\* if (!billing) billing = await prisma.billingState.create({ data: { userId } });
\* userId is unique: the insert is rejected when a row was created meanwhile
checkAccessCreate(r) ==
  /\ pc[r] = "create"
  /\ IF UserOf(r) \in DOMAIN billingState
       THEN /\ pc' = [pc EXCEPT ![r] = "threw"]
            /\ UNCHANGED <<billingState, frame>>
       ELSE /\ billingState' = PutRow(UserOf(r), DefaultBillingState(Now))
            /\ frame' = [frame EXCEPT ![r].billing = Some(DefaultBillingState(Now)),
                                      ![r].loaded = Some(DefaultBillingState(Now))]
            /\ pc' = [pc EXCEPT ![r] = "dayCheck"]
  /\ UNCHANGED <<accessCode, isAccessGranted, user, usageLog, payment, aPIKey, clock, started>>

\* mutant: the whole timestamps are compared instead of the days of the month
ResetDue_FullDate(billing, now) == billing.lastResetAt # now

\* billing.lastResetAt.getDate() !== now.getDate()
ResetDue(billing, now) == getDate(billing.lastResetAt) # getDate(now)

\* mutant: the reset stamps lastResetAt and forgets to zero the counter
ResetRow_KeepsCount(row, now) == [row EXCEPT !.lastResetAt = now]

\* mutant: the reset puts the row back on the FREE tier
ResetRow_DropsTier(row, now) ==
  [row EXCEPT !.dailyUsageCount = 0, !.lastResetAt = now, !.tier = "FREE"]

\* data: { dailyUsageCount: 0, lastResetAt: now }
ResetRow(row, now) == [row EXCEPT !.dailyUsageCount = 0, !.lastResetAt = now]

\* const limit = billing.tier === "PAID" ? DAILY_LIMIT_PAID : DAILY_LIMIT_FREE;
DailyLimit(tier) == IF tier = "PAID" THEN DAILY_LIMIT_PAID ELSE DAILY_LIMIT_FREE

\* mutant: the limit test is strict
LimitExceeded_Strict(billing) == billing.dailyUsageCount > DailyLimit(billing.tier)

\* billing.dailyUsageCount >= limit
LimitExceeded(billing) == billing.dailyUsageCount >= DailyLimit(billing.tier)

\* mutant: the credit test is off by one
InsufficientCredits_OffByOne(billing) ==
  billing.credits < COST_PER_REQUEST_FREE - 1 /\ billing.tier # "PAID"

\* mutant: the credit test forgets the tier
InsufficientCredits_IgnoresTier(billing) == billing.credits < COST_PER_REQUEST_FREE

\* billing.credits < COST_PER_REQUEST_FREE && billing.tier !== "PAID"
InsufficientCredits(billing) ==
  billing.credits < COST_PER_REQUEST_FREE /\ billing.tier # "PAID"

\* mutant: the credits are checked before the daily limit
CheckLimits_CreditsFirst(r, f) ==
  IF InsufficientCredits(Get(f.billing))
    THEN /\ frame' = [frame EXCEPT ![r] =
                        [f EXCEPT !.result = Some(Denied("Insufficient Credits", f.userId))]]
         /\ pc' = [pc EXCEPT ![r] = "done"]
    ELSE IF LimitExceeded(Get(f.billing))
    THEN /\ frame' = [frame EXCEPT ![r] =
                        [f EXCEPT !.result = Some(Denied("Daily Limit Exceeded", f.userId))]]
         /\ pc' = [pc EXCEPT ![r] = "done"]
    ELSE /\ frame' = [frame EXCEPT ![r] = f]
         /\ pc' = [pc EXCEPT ![r] = "update"]

\* 5. Check Limits, 6. Deduct Credits: the synchronous code that follows the
\* day check, run on the local `billing`; it returns a denial or goes on to
\* issue the usage update.  f is the slot's frame when it starts.
CheckLimits(r, f) ==
  IF LimitExceeded(Get(f.billing))
    THEN /\ frame' = [frame EXCEPT ![r] =
                        [f EXCEPT !.result = Some(Denied("Daily Limit Exceeded", f.userId))]]
         /\ pc' = [pc EXCEPT ![r] = "done"]
    ELSE IF InsufficientCredits(Get(f.billing))
    THEN /\ frame' = [frame EXCEPT ![r] =
                        [f EXCEPT !.result = Some(Denied("Insufficient Credits", f.userId))]]
         /\ pc' = [pc EXCEPT ![r] = "done"]
    ELSE /\ frame' = [frame EXCEPT ![r] = f]
         /\ pc' = [pc EXCEPT ![r] = "update"]

\* 4. Check Daily Reset: const now = new Date(); if (...getDate() !== ...getDate())
\* issues the reset; otherwise the limits are checked at once
checkAccessDayCheck(r) ==
  /\ pc[r] = "dayCheck"
  /\ IF ResetDue(Local(r), Now)
       THEN /\ frame' = [frame EXCEPT ![r].now = Now]
            /\ pc' = [pc EXCEPT ![r] = "reset"]
       ELSE CheckLimits(r, [frame[r] EXCEPT !.now = Now])
  /\ UNCHANGED <<accessCode, isAccessGranted, user, billingState, usageLog, payment, aPIKey, clock, started>>

\* mutant: the reset update also zeroes the credits
checkAccessReset_ZeroesCredits(r) ==
  /\ pc[r] = "reset"
  /\ LET row == [ResetRow(billingState[UserOf(r)], frame[r].now) EXCEPT !.credits = 0]
     IN /\ billingState' = PutRow(UserOf(r), row)
        /\ CheckLimits(r, [frame[r] EXCEPT !.billing = Some(row)])
  /\ UNCHANGED <<accessCode, isAccessGranted, user, usageLog, payment, aPIKey, clock, started>>

\* billing = await prisma.billingState.update({ where: { userId }, data: {...} })
\* then the limits are checked on the row the update returned
checkAccessReset(r) ==
  /\ pc[r] = "reset"
  /\ LET row == ResetRow(billingState[UserOf(r)], frame[r].now)
     IN /\ billingState' = PutRow(UserOf(r), row)
        /\ CheckLimits(r, [frame[r] EXCEPT !.billing = Some(row)])
  /\ UNCHANGED <<accessCode, isAccessGranted, user, usageLog, payment, aPIKey, clock, started>>

\* billing.tier === "PAID" ? 0 : COST_PER_REQUEST_FREE   (of the local billing)
CostOf(billing) == IF billing.tier = "PAID" THEN 0 ELSE COST_PER_REQUEST_FREE

\* mutant: the update counts the call and forgets the credits
UsageUpdate_NoCharge(row, billing) == [row EXCEPT !.dailyUsageCount = @ + 1]

\* mutant: the update writes back the values computed from the local copy
UsageUpdate_FromLocal(row, billing) ==
  [row EXCEPT !.dailyUsageCount = billing.dailyUsageCount + 1,
              !.credits = billing.credits - CostOf(billing)]

\* data: { dailyUsageCount: { increment: 1 }, credits: { decrement: ... } }
UsageUpdate(row, billing) ==
  [row EXCEPT !.dailyUsageCount = @ + 1, !.credits = @ - CostOf(billing)]

\* 7. Update Usage & Credits: atomic increment / decrement on the stored row
checkAccessUpdate(r) ==
  /\ pc[r] = "update"
  /\ billingState' = PutRow(UserOf(r), UsageUpdate(billingState[UserOf(r)], Local(r)))
  /\ pc' = [pc EXCEPT ![r] = "log"]
  /\ UNCHANGED <<accessCode, isAccessGranted, user, usageLog, payment, aPIKey, clock, frame, started>>

\* mutant: every row is logged at the FREE cost
UsageLogRow_FlatCost(userId, billing) ==
  [userId |-> userId, action |-> "API_RESOURCE", cost |-> COST_PER_REQUEST_FREE]

\* data: { userId, action: "API_RESOURCE", cost: ... }
UsageLogRow(userId, billing) ==
  [userId |-> userId, action |-> "API_RESOURCE", cost |-> CostOf(billing)]

\* mutant: the cost logged is taken from the tier stored when the row is logged
checkAccessLog_StoredTier(r) ==
  /\ pc[r] = "log"
  /\ usageLog' = Append(usageLog, UsageLogRow(UserOf(r), billingState[UserOf(r)]))
  /\ frame' = [frame EXCEPT ![r].result = Some(Allowed)]
  /\ pc' = [pc EXCEPT ![r] = "done"]
  /\ UNCHANGED <<accessCode, isAccessGranted, user, billingState, payment, aPIKey, clock, started>>

\* 8. Log It: prisma.usageLog.create(...); return { allowed: true }
checkAccessLog(r) ==
  /\ pc[r] = "log"
  /\ usageLog' = Append(usageLog, UsageLogRow(UserOf(r), Local(r)))
  /\ frame' = [frame EXCEPT ![r].result = Some(Allowed)]
  /\ pc' = [pc EXCEPT ![r] = "done"]
  /\ UNCHANGED <<accessCode, isAccessGranted, user, billingState, payment, aPIKey, clock, started>>

(* ----------------------------- accessGuard ---------------------------- *)
\* (apiKeyStr, walletAddress) arguments: none, a wallet of a user, an unknown
\* wallet, an active key, an inactive key with a known wallet, an unknown key
GuardArgs ==
  { <<"", "">>, <<"", "0xw1">>, <<"", "0xwx">>,
    <<"k1", "">>, <<"k2", "0xw1">>, <<"kx", "">> }

\* accessGuard(apiKeyStr?, walletAddress?) up to its first await
accessGuard(r, apiKeyStr, walletAddress) ==
  /\ FreeSlot(r)
  /\ started < MaxOps
  /\ started' = started + 1
  /\ LET f == [IdleFrame EXCEPT !.apiKeyStr = apiKeyStr, !.walletAddress = walletAddress]
     IN IF Truthy(apiKeyStr)
          THEN /\ frame' = [frame EXCEPT ![r] = f]
               /\ pc' = [pc EXCEPT ![r] = "findKey"]
          ELSE IF Truthy(walletAddress)
          THEN /\ frame' = [frame EXCEPT ![r] = f]
               /\ pc' = [pc EXCEPT ![r] = "findWallet"]
          ELSE /\ frame' = [frame EXCEPT ![r] =
                   [f EXCEPT !.result = Some(Denied("Authentication Required", ""))]]
               /\ pc' = [pc EXCEPT ![r] = "done"]
  /\ UNCHANGED <<accessCode, isAccessGranted, user, billingState, usageLog, payment, aPIKey, clock>>

\* mutant: any key found in the store is accepted
InvalidKey_IgnoresActive(key) == key \notin DOMAIN aPIKey

\* !apiKey || !apiKey.isActive
InvalidKey(key) == key \notin DOMAIN aPIKey \/ ~aPIKey[key].isActive

\* 1. Resolve User from API Key: prisma.aPIKey.findUnique({ where: { key } })
accessGuardFindKey(r) ==
  /\ pc[r] = "findKey"
  /\ IF InvalidKey(frame[r].apiKeyStr)
       THEN /\ frame' = [frame EXCEPT ![r].result = Some(DeniedInvalidKey)]
            /\ pc' = [pc EXCEPT ![r] = "done"]
       ELSE /\ frame' = [frame EXCEPT ![r].userId = aPIKey[frame[r].apiKeyStr].userId]
            /\ pc' = [pc EXCEPT ![r] = "trackKey"]
  /\ UNCHANGED <<accessCode, isAccessGranted, user, billingState, usageLog, payment, aPIKey, clock, started>>

\* mutant: the use is counted and lastUsedAt is left as it was
accessGuardTrackKey_NoStamp(r) ==
  /\ pc[r] = "trackKey"
  /\ aPIKey' = [aPIKey EXCEPT ![frame[r].apiKeyStr] = [@ EXCEPT !.usageCount = @ + 1]]
  /\ frame' = [frame EXCEPT ![r] = Callee(r, EnterCheckAccess(frame[r].userId))]
  /\ pc' = [pc EXCEPT ![r] = "load"]
  /\ UNCHANGED <<accessCode, isAccessGranted, user, billingState, usageLog, payment, clock, started>>

\* Track API Key Usage: data: { usageCount: { increment: 1 }, lastUsedAt: new Date() }
\* (new Date() is evaluated when the update is issued, right after the lookup
\* resolved; the model takes the date of the update itself)
accessGuardTrackKey(r) ==
  /\ pc[r] = "trackKey"
  /\ aPIKey' = [aPIKey EXCEPT ![frame[r].apiKeyStr] =
                  [@ EXCEPT !.usageCount = @ + 1, !.lastUsedAt = Some(Now)]]
  /\ frame' = [frame EXCEPT ![r] = Callee(r, EnterCheckAccess(frame[r].userId))]
  /\ pc' = [pc EXCEPT ![r] = "load"]
  /\ UNCHANGED <<accessCode, isAccessGranted, user, billingState, usageLog, payment, clock, started>>

\* 2. Resolve User from Wallet: prisma.user.findUnique({ where: { walletAddress } })
accessGuardFindWallet(r) ==
  /\ pc[r] = "findWallet"
  /\ IF frame[r].walletAddress \in DOMAIN UserByWallet
       THEN /\ frame' = [frame EXCEPT ![r] =
                           Callee(r, EnterCheckAccess(UserByWallet[frame[r].walletAddress]))]
            /\ pc' = [pc EXCEPT ![r] = "load"]
       ELSE /\ frame' = [frame EXCEPT ![r].result =
                           Some(Denied("Authentication Required", ""))]
            /\ pc' = [pc EXCEPT ![r] = "done"]
  /\ UNCHANGED <<accessCode, isAccessGranted, user, billingState, usageLog, payment, aPIKey, clock, started>>

(* -------------------------- mockProcessPayment ------------------------ *)
TxHashArgs == {"0xabc"}

\* mockProcessPayment(txHash, walletAddress, userId) up to its first await
mockProcessPayment(r, txHash, walletAddress, userId) ==
  /\ FreeSlot(r)
  /\ started < MaxOps
  /\ started' = started + 1
  /\ frame' = [frame EXCEPT ![r] =
       [IdleFrame EXCEPT !.txHash = txHash,
                         !.walletAddress = walletAddress, !.userId = userId]]
  /\ pc' = [pc EXCEPT ![r] = "payRecord"]
  /\ UNCHANGED <<accessCode, isAccessGranted, user, billingState, usageLog, payment, aPIKey, clock>>

\* mutant: the payment is recorded as pending
mockProcessPaymentRecord_Pending(r) ==
  /\ pc[r] = "payRecord"
  /\ payment' = Append(payment,
       [ txHash |-> frame[r].txHash, walletAddress |-> frame[r].walletAddress,
         userId |-> frame[r].userId, amount |-> 10, status |-> "PENDING" ])
  /\ pc' = [pc EXCEPT ![r] = "payUpsert"]
  /\ UNCHANGED <<accessCode, isAccessGranted, user, billingState, usageLog, aPIKey, clock, frame, started>>

\* mutant: a txHash already recorded is rejected
mockProcessPaymentRecord_UniqueTxHash(r) ==
  /\ pc[r] = "payRecord"
  /\ IF \E i \in 1..Len(payment) : payment[i].txHash = frame[r].txHash
       THEN /\ pc' = [pc EXCEPT ![r] = "threw"]
            /\ UNCHANGED payment
       ELSE /\ payment' = Append(payment,
                 [ txHash |-> frame[r].txHash, walletAddress |-> frame[r].walletAddress,
                   userId |-> frame[r].userId, amount |-> 10, status |-> "COMPLETED" ])
            /\ pc' = [pc EXCEPT ![r] = "payUpsert"]
  /\ UNCHANGED <<accessCode, isAccessGranted, user, billingState, usageLog, aPIKey, clock, frame, started>>

\* 1. Record Payment: prisma.payment.create({ data: {...} })
mockProcessPaymentRecord(r) ==
  /\ pc[r] = "payRecord"
  /\ payment' = Append(payment,
       [ txHash |-> frame[r].txHash, walletAddress |-> frame[r].walletAddress,
         userId |-> frame[r].userId, amount |-> 10, status |-> "COMPLETED" ])
  /\ pc' = [pc EXCEPT ![r] = "payUpsert"]
  /\ UNCHANGED <<accessCode, isAccessGranted, user, billingState, usageLog, aPIKey, clock, frame, started>>

\* create: { userId, tier: "PAID", credits: 120, dailyUsageCount: 0 }
UpsertCreate(at) ==
  [tier |-> "PAID", credits |-> PAID_CREATE_CREDITS, dailyUsageCount |-> 0, lastResetAt |-> at]

\* mutant: the upgrade also clears the daily usage
UpsertUpdate_ResetsUsage(row) ==
  [row EXCEPT !.tier = "PAID", !.credits = @ + PAID_BONUS_CREDITS, !.dailyUsageCount = 0]

\* mutant: the upgrade adds the bonus and forgets the tier
UpsertUpdate_KeepsTier(row) == [row EXCEPT !.credits = @ + PAID_BONUS_CREDITS]

\* update: { tier: "PAID", credits: { increment: 100 } }
UpsertUpdate(row) == [row EXCEPT !.tier = "PAID", !.credits = @ + PAID_BONUS_CREDITS]

\* 2. Upgrade User: prisma.billingState.upsert(...); return { success, newTier }
mockProcessPaymentUpsert(r) ==
  /\ pc[r] = "payUpsert"
  /\ billingState' = PutRow(UserOf(r),
       IF UserOf(r) \in DOMAIN billingState
         THEN UpsertUpdate(billingState[UserOf(r)])
         ELSE UpsertCreate(Now))
  /\ frame' = [frame EXCEPT ![r].result = Some([success |-> TRUE, newTier |-> "PAID"])]
  /\ pc' = [pc EXCEPT ![r] = "done"]
  /\ UNCHANGED <<accessCode, isAccessGranted, user, usageLog, payment, aPIKey, clock, started>>

(* ------------------------- environment steps -------------------------- *)
\* the result (or the rejection) is delivered to the caller; the slot is free
Return(r) ==
  /\ pc[r] \in {"done", "threw"}
  /\ pc' = [pc EXCEPT ![r] = "idle"]
  /\ frame' = [frame EXCEPT ![r] = IdleFrame]
  /\ UNCHANGED <<accessCode, isAccessGranted, user, billingState, usageLog, payment, aPIKey, clock, started>>

NoneInFlight == \A r \in Reqs : pc[r] = "idle"

\* time passes to the next date at which a request arrives.  Midnight can
\* fall within a request; a longer time passes only between requests.
Tick ==
  /\ clock < Len(Calendar)
  /\ IsPrevDay(Calendar[clock], Calendar[clock + 1]) \/ NoneInFlight
  /\ clock' = clock + 1
  /\ UNCHANGED <<accessCode, isAccessGranted, user, billingState, usageLog, payment, aPIKey, pc, frame, started>>

(* --------------------------- specifications --------------------------- *)
\* a request in flight performs its next storage operation
Step(r) ==
  \/ checkAccessLoad(r)
  \/ checkAccessCreate(r)
  \/ checkAccessDayCheck(r)
  \/ checkAccessReset(r)
  \/ checkAccessUpdate(r)
  \/ checkAccessLog(r)
  \/ mockProcessPaymentRecord(r)
  \/ mockProcessPaymentUpsert(r)
  \/ Return(r)

\* the identity-resolution steps of accessGuard
Resolve(r) ==
  \/ accessGuardFindKey(r)
  \/ accessGuardTrackKey(r)
  \/ accessGuardFindWallet(r)

\* Concurrent requests of one user: guard calls with a verified user id and
\* payments of the users in Callers, any number of them in flight at once.
\* The other users' rows are bystanders.
Callers == {"u1"}

Next ==
  \/ \E r \in Reqs, u \in Callers : guardWithUser(r, u)
  \/ \E r \in Reqs, t \in TxHashArgs, u \in Callers : mockProcessPayment(r, t, "0xwallet", u)
  \/ \E r \in Reqs : Step(r)
  \/ Tick

Spec == Init /\ [][Next]_vars

\* One request at a time, through every entry point and for every user: a
\* request starts only when no other is in flight.

SeqNext ==
  \/ \E r \in Reqs, u \in Users : NoneInFlight /\ guardWithUser(r, u)
  \/ \E r \in Reqs, a \in GuardArgs : NoneInFlight /\ accessGuard(r, a[1], a[2])
  \/ \E r \in Reqs, t \in TxHashArgs, u \in Users :
       NoneInFlight /\ mockProcessPayment(r, t, "0xwallet", u)
  \/ \E r \in Reqs : Resolve(r)
  \/ \E r \in Reqs : Step(r)
  \/ Tick

SpecSeq == Init /\ [][SeqNext]_vars

\* A storage operation of checkAccess fails: the awaited prisma call
\* (findUnique, create, the reset update, the usage update, usageLog.create)
\* rejects instead of taking effect.  checkAccess has no try / catch and no
\* $transaction: the rejection leaves the function at once and what the
\* earlier awaits wrote stays written.
checkAccessRejects(r) ==
  /\ pc[r] \in {"load", "create", "reset", "update", "log"}
  /\ pc' = [pc EXCEPT ![r] = "threw"]
  /\ UNCHANGED <<accessCode, isAccessGranted, user, billingState, usageLog, payment, aPIKey, clock, frame, started>>

\* One request at a time, with a storage that can fail under checkAccess.
FaultNext ==
  \/ SeqNext
  \/ \E r \in Reqs : checkAccessRejects(r)

SpecFault == Init /\ [][FaultNext]_vars

(* --------------------------- walletRegister -------------------------- *)
\* req.body (walletAddress, username): a registered wallet, a new wallet,
\* a new wallet without username
RegisterArgs == { <<"0xw1", "ann">>, <<"0xw3", "bob">>, <<"0xw3", "">> }
\* the ids prisma.user.create gives new rows
NewUserIds == {"u3"}
UserIds == { user[w].id : w \in DOMAIN user }

\* res.status(status).json(...) / res.json(...)
Response(status) == [status |-> status]

\* data: { userId: user.id, plan: "free", credits: 20 }; the other columns
\* take the defaults of the table
RegisterBillingState(at) == [DefaultBillingState(at) EXCEPT !.credits = 20]

\* walletRegister(req, res) up to its first await
walletRegister(r, walletAddress, username) ==
  /\ FreeSlot(r)
  /\ started < MaxOps
  /\ started' = started + 1
  /\ LET f == [IdleFrame EXCEPT !.walletAddress = walletAddress, !.username = username]
     IN IF ~Truthy(walletAddress) \/ ~Truthy(username)
          THEN /\ frame' = [frame EXCEPT ![r] = [f EXCEPT !.result = Some(Response(400))]]
               /\ pc' = [pc EXCEPT ![r] = "done"]
          ELSE /\ frame' = [frame EXCEPT ![r] = f]
               /\ pc' = [pc EXCEPT ![r] = "regFind"]
  /\ UNCHANGED <<accessCode, isAccessGranted, user, billingState, usageLog, payment, aPIKey, clock>>

\* const existingUser = await prisma.user.findUnique({ where: { walletAddress } })
walletRegisterFindUser(r) ==
  /\ pc[r] = "regFind"
  /\ IF frame[r].walletAddress \in DOMAIN user
       THEN /\ frame' = [frame EXCEPT ![r].result = Some(Response(400))]
            /\ pc' = [pc EXCEPT ![r] = "done"]
       ELSE /\ pc' = [pc EXCEPT ![r] = "regCreateUser"]
            /\ UNCHANGED frame
  /\ UNCHANGED <<accessCode, isAccessGranted, user, billingState, usageLog, payment, aPIKey, clock, started>>

\* const user = await prisma.user.create({ data: { walletAddress, ... } });
\* walletAddress is unique: a rejected insert is caught and answered with 400
walletRegisterCreateUser(r) ==
  /\ pc[r] = "regCreateUser"
  /\ IF frame[r].walletAddress \in DOMAIN user
       THEN /\ frame' = [frame EXCEPT ![r].result = Some(Response(400))]
            /\ pc' = [pc EXCEPT ![r] = "done"]
            /\ UNCHANGED user
       ELSE \E id \in NewUserIds \ UserIds :
              /\ user' = [w \in DOMAIN user \cup {frame[r].walletAddress} |->
                            IF w = frame[r].walletAddress THEN [id |-> id] ELSE user[w]]
              /\ frame' = [frame EXCEPT ![r].userId = id]
              /\ pc' = [pc EXCEPT ![r] = "regBilling"]
  /\ UNCHANGED <<accessCode, isAccessGranted, billingState, usageLog, payment, aPIKey, clock, started>>

\* Initialize Billing State for new Wallet User:
\* await prisma.billingState.create({ data: { userId: user.id, plan: "free", credits: 20 } })
\* then res.json({ token, user }); a rejected create (the table of this
\* repository's schema is not in the sources: `plan` may not be a column of
\* it) is caught and answered with 400
walletRegisterCreateBilling(r) ==
  /\ pc[r] = "regBilling"
  /\ \/ /\ frame[r].userId \notin DOMAIN billingState
        /\ billingState' = PutRow(frame[r].userId, RegisterBillingState(Now))
        /\ frame' = [frame EXCEPT ![r].result = Some(Response(200))]
     \/ /\ frame' = [frame EXCEPT ![r].result = Some(Response(400))]
        /\ UNCHANGED billingState
  /\ pc' = [pc EXCEPT ![r] = "done"]
  /\ UNCHANGED <<accessCode, isAccessGranted, user, usageLog, payment, aPIKey, clock, started>>

\* the storage operations of walletRegister
Register(r) ==
  \/ walletRegisterFindUser(r)
  \/ walletRegisterCreateUser(r)
  \/ walletRegisterCreateBilling(r)

\* One request at a time, wallet registration among them.
RegisterNext ==
  \/ SeqNext
  \/ \E r \in Reqs, a \in RegisterArgs : NoneInFlight /\ walletRegister(r, a[1], a[2])
  \/ \E r \in Reqs : Register(r)

SpecRegister == Init /\ [][RegisterNext]_vars

(* ----------------------------- redeemCode ---------------------------- *)
\* req.body (code, userId): each kind of code for a user, the open code for
\* an id no user has, and a body without code
RedeemArgs ==
  { <<"c1", "u1">>, <<"c2", "u1">>, <<"c3", "u1">>, <<"cx", "u1">>,
    <<"c1", "ux">>, <<"", "u1">> }

\* redeemCode(req, res) up to its first await
redeemCode(r, code, userId) ==
  /\ FreeSlot(r)
  /\ started < MaxOps
  /\ started' = started + 1
  /\ LET f == [IdleFrame EXCEPT !.code = code, !.userId = userId]
     IN IF ~Truthy(code) \/ ~Truthy(userId)
          THEN /\ frame' = [frame EXCEPT ![r] = [f EXCEPT !.response = Some(Response(400))]]
               /\ pc' = [pc EXCEPT ![r] = "done"]
          ELSE /\ frame' = [frame EXCEPT ![r] = f]
               /\ pc' = [pc EXCEPT ![r] = "redeemFind"]
  /\ UNCHANGED <<accessCode, isAccessGranted, user, billingState, usageLog, payment, aPIKey, clock>>

\* 1. Find Code: prisma.accessCode.findUnique({ where: { code } }) and the
\* checks made on the row it returned
redeemCodeFind(r) ==
  /\ pc[r] = "redeemFind"
  /\ LET c == frame[r].code
         status == IF c \notin DOMAIN accessCode THEN 404
                   ELSE IF ~accessCode[c].isActive THEN 403
                   ELSE IF accessCode[c].usedCount >= accessCode[c].maxUses THEN 403
                   ELSE 0
     IN IF status # 0
          THEN /\ frame' = [frame EXCEPT ![r].response = Some(Response(status))]
               /\ pc' = [pc EXCEPT ![r] = "done"]
          ELSE /\ pc' = [pc EXCEPT ![r] = "redeemTx"]
               /\ UNCHANGED frame
  /\ UNCHANGED <<accessCode, isAccessGranted, user, billingState, usageLog, payment, aPIKey, clock, started>>

\* 2. Grant Access to User: prisma.$transaction([user.update, accessCode.update]);
\* the update of a user id that has no row rejects, the transaction is
\* rolled back and the catch answers 500
redeemCodeTransaction(r) ==
  /\ pc[r] = "redeemTx"
  /\ IF frame[r].userId \in DOMAIN isAccessGranted
       THEN /\ isAccessGranted' = [isAccessGranted EXCEPT ![frame[r].userId] = TRUE]
            /\ accessCode' = [accessCode EXCEPT ![frame[r].code].usedCount = @ + 1]
            /\ frame' = [frame EXCEPT ![r].response = Some(Response(200))]
       ELSE /\ frame' = [frame EXCEPT ![r].response = Some(Response(500))]
            /\ UNCHANGED <<accessCode, isAccessGranted>>
  /\ pc' = [pc EXCEPT ![r] = "done"]
  /\ UNCHANGED <<user, billingState, usageLog, payment, aPIKey, clock, started>>

\* Concurrent redeemCode requests, any number of them in flight at once.
RedeemNext ==
  \/ \E r \in Reqs, a \in RedeemArgs : redeemCode(r, a[1], a[2])
  \/ \E r \in Reqs : redeemCodeFind(r)
  \/ \E r \in Reqs : redeemCodeTransaction(r)
  \/ \E r \in Reqs : Return(r)

SpecRedeem == Init /\ [][RedeemNext]_vars

(* ---------------------- getprotectedResource, chat -------------------- *)
\* what a protected handler answered: res.status(status).json({ reason,
\* paymentInfo }), with resource telling whether the body is the resource
\* (the premium data, the AI answer) and aiCalled whether
\* ai.models.generateContent was called
HandlerResponse(status, reason, paymentInfo, resource, aiCalled) ==
  [ status |-> status, reason |-> reason, paymentInfo |-> paymentInfo,
    resource |-> resource, aiCalled |-> aiCalled ]

\* res.status(402).json({ error: "Payment Required", reason: access.reason,
\*                        paymentInfo: access.paymentInfo })
PaymentRequired(access) ==
  HandlerResponse(402, access.reason, access.paymentInfo, FALSE, FALSE)

\* getprotectedResource(req, res) up to the first await of the accessGuard
\* it calls with the x-api-key header and the wallet address of the request
getprotectedResource(r, apiKey, walletAddress) ==
  /\ FreeSlot(r)
  /\ started < MaxOps
  /\ started' = started + 1
  /\ LET f == [IdleFrame EXCEPT !.apiKeyStr = apiKey, !.walletAddress = walletAddress,
                                !.handler = "getprotectedResource"]
     IN IF Truthy(apiKey)
          THEN /\ frame' = [frame EXCEPT ![r] = f]
               /\ pc' = [pc EXCEPT ![r] = "findKey"]
          ELSE IF Truthy(walletAddress)
          THEN /\ frame' = [frame EXCEPT ![r] = f]
               /\ pc' = [pc EXCEPT ![r] = "findWallet"]
          ELSE /\ frame' = [frame EXCEPT ![r] =
                   [f EXCEPT !.result = Some(Denied("Authentication Required", ""))]]
               /\ pc' = [pc EXCEPT ![r] = "done"]
  /\ UNCHANGED <<accessCode, isAccessGranted, user, billingState, usageLog, payment, aPIKey, clock>>

\* if (!access.allowed) return res.status(402).json(...); return res.json({ data })
getprotectedResourceRespond(r) ==
  /\ pc[r] = "done" /\ frame[r].handler = "getprotectedResource"
  /\ frame' = [frame EXCEPT ![r].response =
       Some(IF ~Get(frame[r].result).allowed
              THEN PaymentRequired(Get(frame[r].result))
              ELSE HandlerResponse(200, "undefined", None, TRUE, FALSE))]
  /\ pc' = [pc EXCEPT ![r] = "responded"]
  /\ UNCHANGED <<accessCode, isAccessGranted, user, billingState, usageLog, payment, aPIKey, clock, started>>

\* req.user?.userId of the requests to chat: a verified user, none
ChatArgs == {"u1", ""}

\* chat(req, res) up to the first await of guardWithUser: 401 without user
\* id; the accessGuard(undefined, undefined) it calls first touches no
\* table and its result is not used
chat(r, userId) ==
  /\ FreeSlot(r)
  /\ started < MaxOps
  /\ started' = started + 1
  /\ IF ~Truthy(userId)
       THEN /\ frame' = [frame EXCEPT ![r] =
                 [IdleFrame EXCEPT !.handler = "chat",
                    !.response = Some(HandlerResponse(401, "undefined", None, FALSE, FALSE))]]
            /\ pc' = [pc EXCEPT ![r] = "responded"]
       ELSE /\ frame' = [frame EXCEPT ![r] =
                 [EnterCheckAccess(userId) EXCEPT !.handler = "chat"]]
            /\ pc' = [pc EXCEPT ![r] = "load"]
  /\ UNCHANGED <<accessCode, isAccessGranted, user, billingState, usageLog, payment, aPIKey, clock>>

\* 3. Billing Guard: if (!access.allowed) return res.status(402).json(...);
\* otherwise the handler goes on to the AI provider
chatRespond(r) ==
  /\ pc[r] = "done" /\ frame[r].handler = "chat"
  /\ IF ~Get(frame[r].result).allowed
       THEN /\ frame' = [frame EXCEPT ![r].response = Some(PaymentRequired(Get(frame[r].result)))]
            /\ pc' = [pc EXCEPT ![r] = "responded"]
       ELSE /\ pc' = [pc EXCEPT ![r] = "generate"]
            /\ UNCHANGED frame
  /\ UNCHANGED <<accessCode, isAccessGranted, user, billingState, usageLog, payment, aPIKey, clock, started>>

\* catch (e) { return res.status(500).json({ error: "Internal Billing Error" }) }
chatCatch(r) ==
  /\ pc[r] = "threw" /\ frame[r].handler = "chat"
  /\ frame' = [frame EXCEPT ![r].response =
                  Some(HandlerResponse(500, "undefined", None, FALSE, FALSE))]
  /\ pc' = [pc EXCEPT ![r] = "responded"]
  /\ UNCHANGED <<accessCode, isAccessGranted, user, billingState, usageLog, payment, aPIKey, clock, started>>

\* if (!ai) 500; 4. Generate Content with Fallback Models: the answer of
\* the first model that succeeds, 500 when all failed
chatGenerate(r) ==
  /\ pc[r] = "generate"
  /\ \E outcome \in {"unavailable", "answer", "failed"} :
       frame' = [frame EXCEPT ![r].response = Some(
         IF outcome = "unavailable" THEN HandlerResponse(500, "undefined", None, FALSE, FALSE)
         ELSE IF outcome = "answer" THEN HandlerResponse(200, "undefined", None, TRUE, TRUE)
         ELSE HandlerResponse(500, "undefined", None, FALSE, TRUE))]
  /\ pc' = [pc EXCEPT ![r] = "responded"]
  /\ UNCHANGED <<accessCode, isAccessGranted, user, billingState, usageLog, payment, aPIKey, clock, started>>

\* the request is over: the handler has answered, or accessGuard rejected
\* under getprotectedResource, which has no catch
handlerReturn(r) ==
  /\ \/ pc[r] = "responded"
     \/ pc[r] = "threw" /\ frame[r].handler = "getprotectedResource"
  /\ pc' = [pc EXCEPT ![r] = "idle"]
  /\ frame' = [frame EXCEPT ![r] = IdleFrame]
  /\ UNCHANGED <<accessCode, isAccessGranted, user, billingState, usageLog, payment, aPIKey, clock, started>>

\* the storage operations of checkAccess
Check(r) ==
  \/ checkAccessLoad(r)
  \/ checkAccessCreate(r)
  \/ checkAccessDayCheck(r)
  \/ checkAccessReset(r)
  \/ checkAccessUpdate(r)
  \/ checkAccessLog(r)
  \/ checkAccessRejects(r)

\* the steps of the protected handlers after the guard
Handle(r) ==
  \/ getprotectedResourceRespond(r)
  \/ chatRespond(r)
  \/ chatCatch(r)
  \/ chatGenerate(r)
  \/ handlerReturn(r)

\* Requests to the protected handlers, one at a time, over a storage that
\* can fail under checkAccess.
HandlerNext ==
  \/ \E r \in Reqs, a \in GuardArgs : NoneInFlight /\ getprotectedResource(r, a[1], a[2])
  \/ \E r \in Reqs, u \in ChatArgs : NoneInFlight /\ chat(r, u)
  \/ \E r \in Reqs : Resolve(r)
  \/ \E r \in Reqs : Check(r)
  \/ \E r \in Reqs : Handle(r)
  \/ Tick

SpecHandler == Init /\ [][HandlerNext]_vars

TypeOK ==
  /\ DOMAIN billingState \subseteq Users \cup NewUserIds
  /\ \A u \in DOMAIN billingState : billingState[u].tier \in {"FREE", "PAID"}
  /\ clock \in 1..Len(Calendar)
  /\ started \in 0..MaxOps

(* =============================== claims =============================== *)
\* the slot runs checkAccess and has its local `billing`
InCheckAccess(r) == IsSome(frame[r].billing)
\* the row findUnique / create gave the call, before any reassignment
Loaded(r) == Get(frame[r].loaded)
Result(r) == Get(frame[r].result)
\* slot r takes a step
Steps(r) == pc'[r] # pc[r]

\* FREE, dailyUsageCount < 10, credits >= 1
FreeWithinQuota(b) == b.tier = "FREE" /\ b.dailyUsageCount < 10 /\ b.credits >= 1

\* C1: a guard call that finds the user FREE with dailyUsageCount < 10 and
\* credits >= 1 and no reset due goes on to the usage update (it is not
\* denied); its update lowers the stored credits by exactly 1 and raises the
\* stored dailyUsageCount by exactly 1; its log step appends exactly one
\* UsageLog row, for that user, and returns allowed = true; no other step of
\* the call writes the ledger and no other user's row changes.
C1_FreeCallChargesOneAndLogsOne ==
  [][\A r \in Reqs :
       LET u == UserOf(r) IN
       /\ ( /\ pc[r] = "dayCheck" /\ Steps(r)
            /\ FreeWithinQuota(Local(r)) /\ Local(r).lastResetAt = Now )
          => /\ pc'[r] = "update"
             /\ UNCHANGED <<billingState, usageLog>>
       /\ ( pc[r] = "update" /\ Steps(r) /\ FreeWithinQuota(Local(r)) )
          => /\ pc'[r] = "log"
             /\ billingState'[u].credits = billingState[u].credits - 1
             /\ billingState'[u].dailyUsageCount = billingState[u].dailyUsageCount + 1
             /\ billingState'[u].tier = billingState[u].tier
             /\ billingState'[u].lastResetAt = billingState[u].lastResetAt
             /\ \A v \in DOMAIN billingState \ {u} : billingState'[v] = billingState[v]
             /\ usageLog' = usageLog
       /\ ( pc[r] = "log" /\ Steps(r) /\ FreeWithinQuota(Local(r)) )
          => /\ pc'[r] = "done"
             /\ Len(usageLog') = Len(usageLog) + 1
             /\ SubSeq(usageLog', 1, Len(usageLog)) = usageLog
             /\ usageLog'[Len(usageLog')].userId = u
             /\ billingState' = billingState
             /\ IsSome(frame'[r].result) /\ Get(frame'[r].result).allowed
    ]_vars

\* C1 witness: a call that found FREE / 9 used / credits >= 1 with no reset
\* (the local row is the loaded row) has returned allowed
C1_Witness ==
  \E r \in Reqs :
    /\ pc[r] = "done" /\ InCheckAccess(r)
    /\ Local(r) = Loaded(r)
    /\ Local(r).tier = "FREE" /\ Local(r).dailyUsageCount = 9 /\ Local(r).credits >= 1
    /\ Result(r).allowed

\* C2: in every reachable state dailyUsageCount is at most the daily limit of
\* the user's tier (10 for FREE, 1000 for PAID)
C2_UsageWithinDailyLimit ==
  \A u \in DOMAIN billingState :
    billingState[u].dailyUsageCount <=
      (IF billingState[u].tier = "PAID" THEN 1000 ELSE 10)

\* C3: in every reachable state every credit balance is >= 0
C3_CreditsNonNegative ==
  \A u \in DOMAIN billingState : billingState[u].credits >= 0

\* C4: while the stored tier of a user is PAID, no step lowers the user's
\* credits
C4_PaidCreditsNeverDecrease ==
  [][\A u \in DOMAIN billingState :
       billingState[u].tier = "PAID"
         => billingState'[u].credits >= billingState[u].credits]_vars

\* C5: a guard call that finds the user FREE with dailyUsageCount = 10 on the
\* calendar day of lastResetAt is denied with "Daily Limit Exceeded" (and a
\* payment request) in its very next step, and neither that step nor the load
\* before it writes billingState or usageLog
C5_FreeAtLimitDeniedUnchanged ==
  [][\A r \in Reqs :
       /\ ( pc[r] = "load" /\ Steps(r) ) => UNCHANGED <<billingState, usageLog>>
       /\ ( /\ pc[r] = "dayCheck" /\ Steps(r)
            /\ Local(r).tier = "FREE" /\ Local(r).dailyUsageCount = 10
            /\ Local(r).lastResetAt = Now )
          => /\ pc'[r] = "done"
             /\ IsSome(frame'[r].result)
             /\ ~Get(frame'[r].result).allowed
             /\ Get(frame'[r].result).reason = "Daily Limit Exceeded"
             /\ UNCHANGED <<billingState, usageLog>>
    ]_vars

\* C5 witness: a call that found FREE / 10 used, same day, has been denied
C5_Witness ==
  \E r \in Reqs :
    /\ pc[r] = "done" /\ InCheckAccess(r)
    /\ Local(r).tier = "FREE" /\ Local(r).dailyUsageCount = 10
    /\ Local(r).lastResetAt = frame[r].now
    /\ ~Result(r).allowed /\ Result(r).reason = "Daily Limit Exceeded"

\* C6: a guard call that evaluates a FREE billing state with credits = 0 and
\* dailyUsageCount < 10 returns a denial with reason "Insufficient Credits"
\* that carries a payment request
C6_FreeNoCreditsDenied ==
  \A r \in Reqs :
    ( /\ pc[r] \in {"update", "log", "done"} /\ InCheckAccess(r)
      /\ Local(r).tier = "FREE" /\ Local(r).credits = 0
      /\ Local(r).dailyUsageCount < 10 )
    => /\ pc[r] = "done"
       /\ ~Result(r).allowed
       /\ Result(r).reason = "Insufficient Credits"
       /\ Result(r).paymentRequired = Some(TRUE)
       /\ IsSome(Result(r).paymentInfo)

\* C6 witness: such a denial has been returned, with no reset involved
C6_Witness ==
  \E r \in Reqs :
    /\ pc[r] = "done" /\ InCheckAccess(r)
    /\ Local(r) = Loaded(r)
    /\ Local(r).tier = "FREE" /\ Local(r).credits = 0 /\ Local(r).dailyUsageCount = 9
    /\ Result(r).reason = "Insufficient Credits"

\* C7: a guard call that evaluates a PAID billing state goes on to the update
\* and returns allowed exactly when dailyUsageCount < 1000, whatever the
\* credits; at 1000 or more it is denied with "Daily Limit Exceeded"
C7_PaidBoundedByDailyLimitOnly ==
  \A r \in Reqs :
    ( /\ pc[r] \in {"update", "log", "done"} /\ InCheckAccess(r)
      /\ Local(r).tier = "PAID" )
    => /\ Local(r).dailyUsageCount < 1000
            => (pc[r] = "done" => Result(r).allowed)
       /\ Local(r).dailyUsageCount >= 1000
            => /\ pc[r] = "done"
               /\ ~Result(r).allowed
               /\ Result(r).reason = "Daily Limit Exceeded"

\* C7 witness: a PAID user with credits = 0 under the cap has been allowed
C7_Witness ==
  \E r \in Reqs :
    /\ pc[r] = "done" /\ InCheckAccess(r)
    /\ Local(r).tier = "PAID" /\ Local(r).credits = 0
    /\ Local(r).dailyUsageCount = 999
    /\ Result(r).allowed

\* C8: on one calendar day the counter is reset at most once, so usage
\* already counted for the day is never erased: while the stored lastResetAt
\* is today's date and the date does not change, no step lowers the stored
\* dailyUsageCount
C8_CountedUsageNeverErased ==
  [][\A u \in DOMAIN billingState :
       ( billingState[u].lastResetAt = Now /\ clock' = clock )
         => billingState'[u].dailyUsageCount >= billingState[u].dailyUsageCount]_vars

\* C9: with one request at a time, a guard call that loads FREE,
\* dailyUsageCount = 10, credits >= 1 and lastResetAt = the calendar day
\* before the call's date returns allowed, and then the stored
\* dailyUsageCount is 1 and the stored lastResetAt is the call's date
C9_DayBoundaryFirstCall ==
  \A r \in Reqs :
    ( /\ pc[r] = "done" /\ InCheckAccess(r)
      /\ Loaded(r).tier = "FREE" /\ Loaded(r).dailyUsageCount = 10
      /\ Loaded(r).credits >= 1
      /\ IsPrevDay(Loaded(r).lastResetAt, frame[r].now) )
    => /\ Result(r).allowed
       /\ billingState[UserOf(r)].dailyUsageCount = 1
       /\ billingState[UserOf(r)].lastResetAt = frame[r].now
       /\ billingState[UserOf(r)].credits = Loaded(r).credits - 1

\* C9 witness: such a first call of the new day has returned
C9_Witness ==
  \E r \in Reqs :
    /\ pc[r] = "done" /\ InCheckAccess(r)
    /\ Loaded(r).tier = "FREE" /\ Loaded(r).dailyUsageCount = 10
    /\ Loaded(r).credits >= 1
    /\ IsPrevDay(Loaded(r).lastResetAt, frame[r].now)
    /\ Result(r).allowed

\* the call has evaluated the limits on its local billing
Evaluated(r) == pc[r] \in {"update", "log", "done"} /\ InCheckAccess(r)

\* C10 as stated: whenever the calendar date (year, month, day) of the call
\* differs from that of the loaded lastResetAt, the limits are evaluated on a
\* row with dailyUsageCount reset to 0 and lastResetAt set to now
C10_ResetOnNewCalendarDate ==
  \A r \in Reqs :
    ( Evaluated(r) /\ Loaded(r).lastResetAt # frame[r].now )
    => /\ Local(r).lastResetAt = frame[r].now
       /\ Local(r).dailyUsageCount <= 0

\* C10 amended: the reset is decided by the day of the month alone: when the
\* day of the month of the call differs from that of the loaded lastResetAt,
\* the limits are evaluated on the row returned by the reset (dailyUsageCount
\* 0, lastResetAt = now); when it is the same, also on another calendar date,
\* there is no reset and the limits are evaluated on the loaded row
C10_ResetOnNewDayOfMonth ==
  \A r \in Reqs :
    Evaluated(r) =>
      IF Loaded(r).lastResetAt.d # frame[r].now.d
        THEN /\ Local(r).lastResetAt = frame[r].now
             /\ Local(r).dailyUsageCount = 0
        ELSE Local(r) = Loaded(r)

\* C10 witness: a call on a new day of the month has evaluated the limits
\* after a reset that erased a non-zero count
C10_Witness ==
  \E r \in Reqs :
    /\ Evaluated(r)
    /\ Loaded(r).lastResetAt.d # frame[r].now.d
    /\ Loaded(r).dailyUsageCount > 0
    /\ Local(r).dailyUsageCount = 0

\* the slot runs mockProcessPayment
InPayment(r) == frame[r].txHash # ""
\* the payment table holds a record of user u
HasPaid(u) == \E i \in 1..Len(payment) : payment[i].userId = u

\* C11: the upsert step of mockProcessPayment returns {success: true,
\* newTier: "PAID"}; for a user without BillingState it creates the row PAID /
\* credits 120 / dailyUsageCount 0; for a user with one it sets tier PAID and
\* adds exactly 100 to the stored credits, leaving dailyUsageCount and
\* lastResetAt as they are; no other user's row changes
C11_PaymentUpgradesAndTopsUp ==
  [][\A r \in Reqs :
       ( pc[r] = "payUpsert" /\ Steps(r) ) =>
         LET u == UserOf(r) IN
         /\ pc'[r] = "done"
         /\ frame'[r].result = Some([success |-> TRUE, newTier |-> "PAID"])
         /\ u \in DOMAIN billingState'
         /\ billingState'[u].tier = "PAID"
         /\ IF u \in DOMAIN billingState
              THEN /\ billingState'[u].credits = billingState[u].credits + 100
                   /\ billingState'[u].dailyUsageCount = billingState[u].dailyUsageCount
                   /\ billingState'[u].lastResetAt = billingState[u].lastResetAt
              ELSE /\ billingState'[u].credits = 120
                   /\ billingState'[u].dailyUsageCount = 0
         /\ \A v \in DOMAIN billingState \ {u} : billingState'[v] = billingState[v]
    ]_vars

\* C11 witness: a payment has returned for a user that was FREE with 5
\* credits and 10 calls used: the row is PAID / 105 / 10
C11_Witness ==
  \E r \in Reqs :
    /\ pc[r] = "done" /\ InPayment(r)
    /\ billingState[UserOf(r)].tier = "PAID"
    /\ billingState[UserOf(r)].credits = 105
    /\ billingState[UserOf(r)].dailyUsageCount = 10

\* C12: with one request at a time, a guard call of a user for whom a payment
\* has been processed is allowed whenever the dailyUsageCount it evaluates is
\* below 1000, whatever was denied before: nothing but the current
\* BillingState enters the decision
C12_AllowedAfterPayment ==
  \A r \in Reqs :
    ( /\ pc[r] = "done" /\ InCheckAccess(r)
      /\ HasPaid(UserOf(r))
      /\ Local(r).dailyUsageCount < 1000 )
    => Result(r).allowed

\* C12 witness: three requests were made, one a payment and only this one
\* logged as allowed: the call loaded the upgraded row of a user that had
\* reached the FREE limit of 10 that day
C12_Witness ==
  \E r \in Reqs :
    /\ pc[r] = "done" /\ InCheckAccess(r)
    /\ HasPaid(UserOf(r))
    /\ started = 3 /\ Len(payment) = 1 /\ Len(usageLog) = 1
    /\ Loaded(r).tier = "PAID" /\ Loaded(r).dailyUsageCount = 10
    /\ Loaded(r) = Local(r)
    /\ Result(r).allowed

\* the slot runs a guard call (accessGuard or guardWithUser)
InGuard(r) == pc[r] # "idle" /\ ~InPayment(r)
\* the slot holds the AccessResult its guard call returns
Returned(r) == pc[r] = "done" /\ InGuard(r)
DenialReasons ==
  { "Authentication Required", "Invalid or Inactive API Key",
    "Daily Limit Exceeded", "Insufficient Credits" }

\* C13: every AccessResult with allowed = false returned by a guard call
\* carries one of the four denial reasons and a non-null paymentInfo
C13_DenialCarriesPaymentInfo ==
  \A r \in Reqs :
    ( Returned(r) /\ ~Result(r).allowed ) =>
      /\ Result(r).reason \in DenialReasons
      /\ IsSome(Result(r).paymentInfo)

\* the keys accessGuard is called with
KeyArgs == { a[1] : a \in GuardArgs } \ {""}

\* C14: while a slot runs accessGuard with a key that is absent from the
\* store or inactive, no step changes billingState, usageLog or aPIKey, the
\* call never enters checkAccess, and what it returns is the denial
\* "Invalid or Inactive API Key", also when it was given a wallet address
\* that resolves to a user
C14_InvalidKeyTouchesNothing ==
  [][\A r \in Reqs : \A k \in KeyArgs :
       ( /\ frame'[r].apiKeyStr = k
         /\ (k \notin DOMAIN aPIKey \/ ~aPIKey[k].isActive) )
       => /\ UNCHANGED <<billingState, usageLog, aPIKey>>
          /\ pc'[r] \in {"findKey", "done"}
          /\ pc'[r] = "done" =>
               /\ ~Get(frame'[r].result).allowed
               /\ Get(frame'[r].result).reason = "Invalid or Inactive API Key"
    ]_vars

\* C14 witness: accessGuard has returned for the inactive key k2 given
\* together with the wallet 0xw1 of user u1
C14_Witness ==
  \E r \in Reqs :
    /\ Returned(r)
    /\ frame[r].apiKeyStr = "k2" /\ ~aPIKey["k2"].isActive
    /\ frame[r].walletAddress \in DOMAIN UserByWallet
    /\ ~Result(r).allowed

\* C15: a call of accessGuard without API key and with no wallet address,
\* or one that matches no user, only looks the wallet up and returns: it
\* returns allowed = false, reason "Authentication Required",
\* paymentRequired = true and a paymentInfo with referenceId "anonymous"
C15_AnonymousDenied ==
  \A r \in Reqs :
    ( /\ InGuard(r)
      /\ frame[r].userId = "" /\ frame[r].apiKeyStr = ""
      /\ frame[r].walletAddress \notin DOMAIN UserByWallet )
    => /\ pc[r] \in {"findWallet", "done"}
       /\ pc[r] = "done" =>
            /\ ~Result(r).allowed
            /\ Result(r).reason = "Authentication Required"
            /\ Result(r).paymentRequired = Some(TRUE)
            /\ IsSome(Result(r).paymentInfo)
            /\ Get(Result(r).paymentInfo).referenceId = "anonymous"

\* C15 witness: accessGuard has returned for a wallet address no user has
C15_Witness ==
  \E r \in Reqs :
    /\ Returned(r)
    /\ frame[r].apiKeyStr = "" /\ frame[r].walletAddress = "0xwx"
    /\ Result(r).reason = "Authentication Required"

\* the row a first guard call is to create at date `at`
FreshRow(at) == [tier |-> "FREE", credits |-> 20, dailyUsageCount |-> 0, lastResetAt |-> at]
\* the call in slot r holds a row as it is on creation
LoadedFresh(r) ==
  /\ InCheckAccess(r)
  /\ Loaded(r).tier = "FREE" /\ Loaded(r).credits = 20 /\ Loaded(r).dailyUsageCount = 0

\* C18: with one request at a time, a guard call that finds no BillingState
\* of its user first inserts the row FREE / credits 20 / dailyUsageCount 0 /
\* lastResetAt = now and goes on with that row; a call holding such a row
\* is evaluated like any other: it returns allowed and leaves credits 19
\* and dailyUsageCount 1 stored
C18_FirstCallCreatesDefaultRow ==
  [][\A r \in Reqs :
       LET u == UserOf(r) IN
       /\ ( pc[r] = "create" /\ Steps(r) ) =>
            /\ u \notin DOMAIN billingState
            /\ u \in DOMAIN billingState'
            /\ billingState'[u] = FreshRow(Now)
            /\ frame'[r].loaded = Some(FreshRow(Now))
            /\ pc'[r] = "dayCheck"
       /\ ( LoadedFresh(r) /\ Steps(r) /\ pc'[r] = "done" ) =>
            /\ Get(frame'[r].result).allowed
            /\ billingState'[u].tier = "FREE"
            /\ billingState'[u].credits = 19
            /\ billingState'[u].dailyUsageCount = 1
    ]_vars

\* C18 witness: the only request made so far, a guard call for a user that
\* had no row, has returned allowed and the row reads 19 / 1
C18_Witness ==
  \E r \in Reqs :
    /\ Returned(r) /\ LoadedFresh(r)
    /\ started = 1
    /\ Result(r).allowed
    /\ billingState[UserOf(r)].credits = 19
    /\ billingState[UserOf(r)].dailyUsageCount = 1

\* C17: with one request at a time, a guard call that ended in a storage
\* error leaves the BillingState row of its user as the call found it (the
\* row it loaded, or the row as created), so nothing is deducted or counted
\* without the UsageLog row
C17_FailedRequestLeavesLedger ==
  \A r \in Reqs :
    ( pc[r] = "threw" /\ InGuard(r) /\ IsSome(frame[r].loaded) ) =>
      billingState[UserOf(r)] = Loaded(r)

\* C19: a call of accessGuard with a key that exists and is active goes from
\* the key lookup to the tracking update and from there into checkAccess for
\* the key's owner, before any quota decision; the tracking update adds
\* exactly 1 to that key's usageCount, sets its lastUsedAt to now and
\* changes nothing else in aPIKey; no other step changes aPIKey.  Hence
\* usageCount counts the calls made with the key while active, whatever the
\* quota decision
C19_ActiveKeyCountedOnce ==
  [][/\ \A r \in Reqs : \A k \in DOMAIN aPIKey :
          ( frame[r].apiKeyStr = k /\ aPIKey[k].isActive /\ Steps(r) ) =>
            /\ pc[r] = "findKey" =>
                 /\ pc'[r] = "trackKey"
                 /\ frame'[r].userId = aPIKey[k].userId
                 /\ aPIKey' = aPIKey
            /\ pc[r] = "trackKey" =>
                 /\ pc'[r] = "load"
                 /\ frame'[r].userId = aPIKey[k].userId
                 /\ aPIKey'[k].usageCount = aPIKey[k].usageCount + 1
                 /\ aPIKey'[k].lastUsedAt = Some(Now)
                 /\ aPIKey'[k].isActive /\ aPIKey'[k].userId = aPIKey[k].userId
                 /\ \A j \in DOMAIN aPIKey \ {k} : aPIKey'[j] = aPIKey[j]
     /\ aPIKey' # aPIKey => \E r \in Reqs : pc[r] = "trackKey" /\ Steps(r)
    ]_vars

\* C19 witness: the only call made so far came with the active key k1 and
\* was denied by checkAccess; the key's usageCount is 1
C19_Witness ==
  \E r \in Reqs :
    /\ Returned(r) /\ InCheckAccess(r)
    /\ started = 1
    /\ ~Result(r).allowed
    /\ aPIKey["k1"].usageCount = 1
    /\ IsSome(aPIKey["k1"].lastUsedAt)

\* the cost of a call whose local billing has this tier
CostCharged(tier) == IF tier = "PAID" THEN 0 ELSE 1

\* C20: usageLog changes only by the append of one row, made by a guard
\* call in the step in which it returns allowed; the row carries the call's
\* user and the cost the call charged in its usage update (1 when its billing
\* is FREE, 0 when PAID); a call that returns a denial appends nothing and no
\* step changes or removes a row.  Hence the rows of a user are as many as
\* the user's allowed calls
C20_UsageLogOneRowPerAllowedCall ==
  [][/\ \A r \in Reqs :
          LET u == UserOf(r) IN
          /\ ( Steps(r) /\ pc'[r] = "done" /\ frame'[r].txHash = "" ) =>
               IF Get(frame'[r].result).allowed
                 THEN /\ pc[r] = "log"
                      /\ usageLog' = Append(usageLog,
                           [ userId |-> u, action |-> "API_RESOURCE",
                             cost |-> CostCharged(Local(r).tier) ])
                 ELSE usageLog' = usageLog
          /\ ( pc[r] = "update" /\ Steps(r) /\ pc'[r] = "log" ) =>
               /\ frame'[r] = frame[r]
               /\ billingState'[u].credits =
                    billingState[u].credits - CostCharged(Local(r).tier)
     /\ usageLog' # usageLog =>
          \E r \in Reqs : pc[r] = "log" /\ pc'[r] = "done"
                          /\ Get(frame'[r].result).allowed
    ]_vars

\* C20 witness: a call has returned allowed and the log holds two rows of
\* its user, one at cost 1 from a FREE call and one at cost 0 from a PAID call
C20_Witness ==
  \E r \in Reqs :
    /\ Returned(r) /\ Result(r).allowed
    /\ Len(usageLog) = 2
    /\ usageLog[1].userId = UserOf(r) /\ usageLog[2].userId = UserOf(r)
    /\ usageLog[1].cost = 1 /\ usageLog[2].cost = 0

\* C16: every step that changes billingState is a storage operation of
\* checkAccess (its create, reset or usage update) or the upsert of
\* mockProcessPayment
C16_BillingStateWrittenByOwnersOnly ==
  [][ billingState' # billingState =>
        \E r \in Reqs : Steps(r) /\ pc[r] \in {"create", "reset", "update", "payUpsert"}
    ]_vars

\* the payment rows of user u that carry the hash t
PaymentsOf(u, t) ==
  { i \in 1..Len(payment) : payment[i].userId = u /\ payment[i].txHash = t }

\* C21: with one request at a time, mockProcessPayment called with a txHash
\* the user has already paid with is carried out like the first time: the
\* record step appends one more payment row with status COMPLETED (it is
\* not rejected), and the upsert step adds 100 to the credits again and
\* returns success
C21_SameTxHashPaysAgain ==
  [][\A r \in Reqs :
       LET u == UserOf(r)
           t == frame[r].txHash
       IN
       /\ ( pc[r] = "payRecord" /\ Steps(r) /\ PaymentsOf(u, t) # {} ) =>
            /\ pc'[r] = "payUpsert"
            /\ Len(payment') = Len(payment) + 1
            /\ SubSeq(payment', 1, Len(payment)) = payment
            /\ payment'[Len(payment')].txHash = t
            /\ payment'[Len(payment')].userId = u
            /\ payment'[Len(payment')].status = "COMPLETED"
       /\ ( pc[r] = "payUpsert" /\ Steps(r) /\ Cardinality(PaymentsOf(u, t)) >= 2 ) =>
            /\ pc'[r] = "done"
            /\ Get(frame'[r].result).success
            /\ billingState'[u].credits = billingState[u].credits + 100
    ]_vars

\* C21 witness: the second payment of a user with the same txHash has
\* returned; both rows are COMPLETED and the credits went from 5 to 205
C21_Witness ==
  \E r \in Reqs :
    /\ pc[r] = "done" /\ InPayment(r)
    /\ Len(payment) = 2
    /\ PaymentsOf(UserOf(r), frame[r].txHash) = {1, 2}
    /\ payment[1].status = "COMPLETED" /\ payment[2].status = "COMPLETED"
    /\ billingState[UserOf(r)].credits = 205

\* the payment request of the fixed policy, addressed to ref
PolicyRequest(ref) ==
  [ amount |-> 10, currency |-> "USDC",
    address |-> "0x742d35Cc6634C0532925a3b844Bc454e4438f44e",
    network |-> "Base Sepolia", referenceId |-> ref ]
QuotaDenials == {"Daily Limit Exceeded", "Insufficient Credits"}

\* C22: generatePaymentRequest depends on nothing but its argument: for a
\* user id it is the fixed policy (amount 10, USDC, the fixed address and
\* network) with that id as referenceId, without one the same with
\* "anonymous", in every state; every paymentInfo a guard call returns is
\* that value, and the one of a quota denial is addressed to the denied user
C22_PaymentRequestIsFixedPolicy ==
  /\ \A u \in Users : generatePaymentRequest(u) = PolicyRequest(u)
  /\ generatePaymentRequest("") = PolicyRequest("anonymous")
  /\ \A r \in Reqs :
       ( Returned(r) /\ IsSome(Result(r).paymentInfo) ) =>
         /\ \E ref \in Users \cup {"anonymous"} :
              Get(Result(r).paymentInfo) = PolicyRequest(ref)
         /\ Result(r).reason \in QuotaDenials =>
              /\ UserOf(r) \in Users
              /\ Get(Result(r).paymentInfo) = PolicyRequest(UserOf(r))

\* C22 witness: a call of user u1 has returned a quota denial with its
\* payment request, after a payment was recorded
C22_Witness ==
  \E r \in Reqs :
    /\ Returned(r) /\ UserOf(r) = "u1"
    /\ Result(r).reason \in QuotaDenials
    /\ IsSome(Result(r).paymentInfo)
    /\ Len(payment) > 0

\* the slots whose guard call has applied its usage update for user u and
\* has not been handed back yet
Counted(u) ==
  { r \in Reqs : /\ InGuard(r) /\ InCheckAccess(r) /\ UserOf(r) = u
                 /\ \/ pc[r] = "log"
                    \/ pc[r] = "done" /\ Result(r).allowed }
MinOf(S) == CHOOSE x \in S : \A y \in S : x <= y
MaxOf(S) == CHOOSE x \in S : \A y \in S : x >= y

\* C23: when the requests made so far are N guard calls of one user that
\* all passed their checks and applied their update, none of them with a
\* reset, the stored dailyUsageCount is exactly N above the count the first
\* of them found, and for FREE calls the stored credits are exactly N below
\* the credits it found: no increment is lost, however the calls interleave
C23_NoLostUpdate ==
  \A u \in Users :
    LET A == Counted(u)
        N == Cardinality(A)
    IN ( /\ A # {} /\ started = N
         /\ \A r \in A : Local(r) = Loaded(r) )
       => /\ billingState[u].dailyUsageCount
               = MinOf({ Loaded(r).dailyUsageCount : r \in A }) + N
          /\ (\A r \in A : Loaded(r).tier = "FREE") =>
               billingState[u].credits = MaxOf({ Loaded(r).credits : r \in A }) - N

\* C23 witness: two concurrent calls both loaded the count 9 and both
\* applied their update: the stored count is 11
C23_Witness ==
  \E u \in Users :
    /\ Cardinality(Counted(u)) = 2 /\ started = 2
    /\ \A r \in Counted(u) : Loaded(r).dailyUsageCount = 9 /\ Local(r) = Loaded(r)
    /\ billingState[u].dailyUsageCount = 11

\* C24: a guard call that evaluates a FREE billing with dailyUsageCount at
\* or above 10 and credits below 1 returns "Daily Limit Exceeded";
\* "Insufficient Credits" is returned only on a count below the daily limit
C24_LimitCheckedBeforeCredits ==
  \A r \in Reqs :
    ( Returned(r) /\ InCheckAccess(r) /\ ~Result(r).allowed ) =>
      /\ ( Local(r).tier = "FREE" /\ Local(r).dailyUsageCount >= 10
           /\ Local(r).credits < 1 )
         => Result(r).reason = "Daily Limit Exceeded"
      /\ Result(r).reason = "Insufficient Credits"
         => Local(r).dailyUsageCount < (IF Local(r).tier = "PAID" THEN 1000 ELSE 10)

\* C24 witness: a call that loaded FREE / 10 used / 0 credits, with no
\* reset, has returned "Daily Limit Exceeded"
C24_Witness ==
  \E r \in Reqs :
    /\ Returned(r) /\ InCheckAccess(r)
    /\ Loaded(r) = Local(r)
    /\ Local(r).tier = "FREE" /\ Local(r).dailyUsageCount = 10 /\ Local(r).credits = 0
    /\ Result(r).reason = "Daily Limit Exceeded"

\* C26: with one request at a time, the steps a guard call takes before it
\* decides (key and wallet lookup, load, day check) write neither
\* billingState nor usageLog; a call that creates the row holds a billing
\* that passes both checks, so it is not one that is denied; the step in
\* which a call returns a denial appends no usageLog row and leaves
\* billingState as it is, except that a denial decided on the row returned
\* by the reset has set dailyUsageCount to 0 and lastResetAt to its now in that
\* row, credits and tier untouched; a denial for unresolved identity or an
\* invalid key changes no BillingState
C26_DeniedCallWritesOnlyReset ==
  [][\A r \in Reqs :
       LET u == UserOf(r) IN
       /\ ( Steps(r) /\ pc[r] \in {"findKey", "findWallet", "load", "dayCheck"} ) =>
            UNCHANGED <<billingState, usageLog>>
       /\ ( Steps(r) /\ pc[r] = "create" /\ pc'[r] = "dayCheck" ) =>
            /\ Get(frame'[r].billing).credits >= 1
            /\ Get(frame'[r].billing).dailyUsageCount = 0
            /\ Get(frame'[r].billing).tier = "FREE"
       /\ ( /\ Steps(r) /\ pc'[r] = "done" /\ frame'[r].txHash = ""
            /\ ~Get(frame'[r].result).allowed ) =>
            /\ usageLog' = usageLog
            /\ IF pc[r] = "reset"
                 THEN /\ billingState' =
                           [billingState EXCEPT ![u] =
                              [@ EXCEPT !.dailyUsageCount = 0, !.lastResetAt = frame[r].now]]
                      /\ billingState'[u].credits = billingState[u].credits
                      /\ billingState'[u].tier = billingState[u].tier
                 ELSE billingState' = billingState
    ]_vars

\* C26 witness: a call has returned a denial decided after the reset: the
\* stored row has dailyUsageCount 0 and today's lastResetAt, and the log is
\* empty
C26_Witness ==
  \E r \in Reqs :
    /\ Returned(r) /\ InCheckAccess(r) /\ ~Result(r).allowed
    /\ Loaded(r) # Local(r)
    /\ billingState[UserOf(r)].dailyUsageCount = 0
    /\ billingState[UserOf(r)].lastResetAt = Now
    /\ billingState[UserOf(r)].credits = Loaded(r).credits
    /\ usageLog = <<>>

RECURSIVE SumCost(_, _, _)
\* the sum of the cost fields of the first n rows of log that belong to u
SumCost(log, u, n) ==
  IF n = 0 THEN 0
  ELSE SumCost(log, u, n - 1) + (IF log[n].userId = u THEN log[n].cost ELSE 0)
\* what the calls of u that have deducted and not yet logged are to log
PendingCost(u) ==
  LET P == { r \in Reqs : pc[r] = "log" /\ UserOf(r) = u }
      c == CostCharged("FREE")
  IN c * Cardinality({ r \in P : Local(r).tier # "PAID" })
\* credits held + cost logged + cost deducted and still to be logged
Balance(u) == billingState[u].credits + SumCost(usageLog, u, Len(usageLog)) + PendingCost(u)

\* C27: under every interleaving, for a user with a BillingState the sum of
\* the stored credits, the costs of the user's UsageLog rows and the costs
\* deducted by calls that have still to log is changed by no step of a
\* guard call: what the calls deduct is what they log.  Only the upsert of a
\* payment for the user changes the sum
C27_DeductedEqualsLogged ==
  [][\A u \in DOMAIN billingState :
       (\A r \in Reqs : ~(pc[r] = "payUpsert" /\ Steps(r) /\ UserOf(r) = u))
       => Balance(u)' = Balance(u)
    ]_vars

\* C27 witness: a call that loaded a FREE row was overtaken by a payment:
\* it has deducted 1 from the credits of a PAID row and logged the cost 1
C27_Witness ==
  \E r \in Reqs :
    /\ Returned(r) /\ Result(r).allowed
    /\ Local(r).tier = "FREE"
    /\ billingState[UserOf(r)].tier = "PAID"
    /\ billingState[UserOf(r)].credits = Loaded(r).credits + 100 - 1
    /\ Len(usageLog) = 1 /\ usageLog[1].cost = 1

\* C28: under every interleaving, no step turns a stored tier PAID into
\* anything else, and no step of a guard call changes the tier of a row
C28_TierMonotone ==
  [][\A u \in DOMAIN billingState :
       /\ u \in DOMAIN billingState'
       /\ billingState[u].tier = "PAID" => billingState'[u].tier = "PAID"
       /\ billingState'[u].tier # billingState[u].tier =>
            \E r \in Reqs : pc[r] = "payUpsert" /\ Steps(r) /\ UserOf(r) = u
    ]_vars

\* C28 witness: after the payment of a user, a guard call of that user on
\* the next day has reset and updated the row, and the row is still PAID
C28_Witness ==
  \E r \in Reqs :
    /\ Returned(r) /\ Result(r).allowed
    /\ HasPaid(UserOf(r))
    /\ Loaded(r).tier = "PAID" /\ Loaded(r).credits >= 100
    /\ Loaded(r) # Local(r)
    /\ billingState[UserOf(r)].tier = "PAID"
    /\ billingState[UserOf(r)].dailyUsageCount = 1

\* C29: under every interleaving, payment changes only by the append of one
\* row with status COMPLETED, made by the record step of a
\* mockProcessPayment call for its user; the upsert step of a call comes
\* with the call's row already recorded; and a call that has returned
\* leaves the tier of its user PAID
C29_RecordThenUpgrade ==
  [][/\ payment' # payment =>
          \E r \in Reqs :
            /\ pc[r] = "payRecord" /\ Steps(r)
            /\ Len(payment') = Len(payment) + 1
            /\ SubSeq(payment', 1, Len(payment)) = payment
            /\ payment'[Len(payment')].userId = UserOf(r)
            /\ payment'[Len(payment')].txHash = frame[r].txHash
            /\ payment'[Len(payment')].status = "COMPLETED"
     /\ \A r \in Reqs :
          /\ ( pc[r] = "payRecord" /\ Steps(r) ) =>
               /\ pc'[r] = "payUpsert"
               /\ Len(payment') = Len(payment) + 1
               /\ billingState' = billingState
          /\ ( pc[r] = "payUpsert" /\ Steps(r) ) =>
               /\ PaymentsOf(UserOf(r), frame[r].txHash) # {}
               /\ payment' = payment
          /\ ( pc'[r] = "done" /\ frame'[r].txHash # "" ) =>
               billingState'[UserOf(r)].tier = "PAID"
    ]_vars

\* C29 witness: a payment call for a user without BillingState has recorded
\* its COMPLETED row and the row is not created yet
C29_Witness ==
  \E r \in Reqs :
    /\ pc[r] = "payUpsert"
    /\ UserOf(r) \notin DOMAIN billingState
    /\ Len(payment) = 1 /\ payment[1].status = "COMPLETED"
    /\ payment[1].userId = UserOf(r)

\* C30: under every interleaving of redeemCode calls, no access code has a
\* usedCount above its maxUses
C30_UsedCountWithinMaxUses ==
  \A c \in DOMAIN accessCode : accessCode[c].usedCount <= accessCode[c].maxUses

\* C25: what a protected handler has answered follows the guard: the
\* resource is in the answer only if the guard returned allowed; to a
\* denial the answer is 402 with the reason and a paymentInfo and without
\* the resource; to a guard call that threw, chat answers 500 and has not
\* called the AI provider
C25_ResourceOnlyAfterAllowed ==
  \A r \in Reqs :
    ( frame[r].handler # "" /\ IsSome(frame[r].response) ) =>
      LET resp == Get(frame[r].response) IN
      /\ resp.resource => ( IsSome(frame[r].result) /\ Result(r).allowed )
      /\ ( IsSome(frame[r].result) /\ ~Result(r).allowed ) =>
           /\ resp.status = 402
           /\ resp.reason \in DenialReasons
           /\ IsSome(resp.paymentInfo)
           /\ ~resp.resource
      /\ ( frame[r].handler = "chat" /\ frame[r].userId # "" /\ frame[r].result = None ) =>
           /\ resp.status = 500
           /\ ~resp.aiCalled
====
